---------------------------- MODULE Spec2Model ----------------------------
(***************************************************************************)
(* Model of src/ontology/base_ontology.py: FashionConcept, FashionOntology *)
(* (the concept store with its networkx DiGraph) and OntologyManager (the  *)
(* propose/approve workflow).                                              *)
(*                                                                         *)
(* Values.  Names, categories, attribute keys and values are strings.      *)
(* Python's None is the string None below when it stands for a parent,     *)
(* and the record NoneAttrs when it stands for an attributes argument.  A  *)
(* dict is [none |-> FALSE, items |-> <<k1, v1>>, ...] in insertion order. *)
(* The timestamps created_at / modified_at and the attribute snapshot the  *)
(* graph node carries are not read by any operation and are left out.      *)
(***************************************************************************)
EXTENDS Integers, Sequences, FiniteSets, TLC

VARIABLES
    concepts,          \* FashionOntology.concepts: name -> FashionConcept
    keys,              \* insertion order of the concepts dict
    graph,             \* FashionOntology.graph: [nodes, edges] of the DiGraph
    pending_concepts,  \* OntologyManager.pending_concepts: set of JSON strings
    file,              \* the document at the export/import path
    pc,                \* "idle", or "walk" inside get_ancestry's while loop
    current,           \* get_ancestry: local variable current
    path,              \* get_ancestry: local variable path
    last,              \* the call made last, with its arguments
    ret,               \* what the last call returned
    nops               \* number of mutating calls made so far

vars == <<concepts, keys, graph, pending_concepts, file, pc, current, path,
          last, ret, nops>>

----------------------------------------------------------------------------
(* Bounds of the model *)

MaxOps == 2

MaxStoreOps == 2

MaxManagerOps == 4

MaxQueryOps == 2

MaxDistance == 2

MaxPath == 4

----------------------------------------------------------------------------
(* Python values *)

None == "<None>"

NoneAttrs == [none |-> TRUE, items |-> <<>>]

Dict(items) == [none |-> FALSE, items |-> items]

\* Python truthiness of a str-or-None
Truthy(s) == s # None /\ s # ""

\* Python truthiness of a dict-or-None
TruthyAttrs(a) == ~a.none /\ Len(a.items) > 0

Range(s) == {s[i] : i \in 1..Len(s)}

Reverse(s) == [i \in 1..Len(s) |-> s[Len(s) + 1 - i]]

----------------------------------------------------------------------------
(* Inputs of the calls *)

NameInputs == {"Fashion", "Velvet", "Tweed"}

CategoryInputs == {"material"}

AttributeInputs == {NoneAttrs, Dict(<< <<"colour", "red">> >>)}

ParentInputs == {None, "Fashion", "Velvet"}

QueryInputs == {"Fashion", "Dresses", "Velvet"}

RelatedInputs == {"Fashion", "Apparel", "Velvet"}

DistanceInputs == 0..MaxDistance

----------------------------------------------------------------------------
(* FashionConcept *)

FashionConcept(name, category, attributes, parent) ==
    [name       |-> name,
     category   |-> category,
     attributes |-> IF TruthyAttrs(attributes) THEN attributes ELSE Dict(<<>>),
     parent     |-> parent,
     children   |-> {}]

to_dict(c) ==
    [name       |-> c.name,
     category   |-> c.category,
     attributes |-> c.attributes,
     parent     |-> c.parent,
     children   |-> c.children]

----------------------------------------------------------------------------
(* FashionOntology: a store is [concepts, keys, graph] *)

EmptyStore ==
    [concepts |-> << >>,
     keys     |-> << >>,
     graph    |-> [nodes |-> {}, order |-> << >>, edges |-> {}]]

\* self.concepts[name] = concept
SetItem(cs, name, concept) ==
    [n \in (DOMAIN cs) \cup {name} |-> IF n = name THEN concept ELSE cs[n]]

\* self.concepts[parent].children.add(name)
AddChild(cs, parent, name) ==
    [cs EXCEPT ![parent].children = @ \cup {name}]

\* nx.DiGraph.add_node(n, **attr); order is the iteration order of
\* graph.nodes(), the order in which the nodes were first added
add_node(g, n) ==
    [nodes |-> g.nodes \cup {n},
     order |-> IF n \in g.nodes THEN g.order ELSE Append(g.order, n),
     edges |-> g.edges]

\* nx.DiGraph.add_edge(u, v): adds the nodes u and v when they are missing
add_edge(g, u, v) ==
    LET g2 == add_node(add_node(g, u), v)
    IN  [nodes |-> g2.nodes, order |-> g2.order,
         edges |-> g.edges \cup {<<u, v>>}]

\* as add_concept, on a store cleared first (as import_from_json clears it)
add_concept_Clears(s, name, category, attributes, parent) ==
    LET concept == FashionConcept(name, category, attributes, parent)
        cs1     == SetItem(EmptyStore.concepts, name, concept)
        g1      == add_node(EmptyStore.graph, name)
    IN  IF Truthy(parent)
        THEN [concepts |-> IF parent \in DOMAIN cs1
                           THEN AddChild(cs1, parent, name) ELSE cs1,
              keys     |-> <<name>>,
              graph    |-> add_edge(g1, parent, name)]
        ELSE [concepts |-> cs1, keys |-> <<name>>, graph |-> g1]

add_concept(s, name, category, attributes, parent) ==
    LET concept == FashionConcept(name, category, attributes, parent)
        cs1     == SetItem(s.concepts, name, concept)
        keys1   == IF name \in DOMAIN s.concepts THEN s.keys
                   ELSE Append(s.keys, name)
        g1      == add_node(s.graph, name)
    IN  IF Truthy(parent)
        THEN [concepts |-> IF parent \in DOMAIN cs1
                           THEN AddChild(cs1, parent, name) ELSE cs1,
              keys     |-> keys1,
              graph    |-> add_edge(g1, parent, name)]
        ELSE [concepts |-> cs1, keys |-> keys1, graph |-> g1]

main_categories == <<"Apparel", "Footwear", "Accessories", "Beauty">>

apparel_categories ==
    <<"Dresses", "Tops", "Bottoms", "Outerwear", "Suits",
      "Activewear", "Intimates", "Swimwear">>

attribute_categories ==
    << <<"Material", <<"Cotton", "Silk", "Wool", "Polyester", "Leather", "Denim">> >>,
       <<"Pattern", <<"Solid", "Striped", "Floral", "Checked", "Geometric">> >>,
       <<"Style", <<"Casual", "Formal", "Athletic", "Bohemian", "Classic">> >>,
       <<"Fit", <<"Regular", "Slim", "Loose", "Tailored", "Oversized">> >>,
       <<"Length", <<"Mini", "Midi", "Maxi", "Cropped", "Full-length">> >>,
       <<"Occasion", <<"Casual", "Formal", "Party", "Workwear", "Sports">> >>,
       <<"Feature", <<"Pockets", "Buttons", "Zippers", "Collar", "Hood">> >>,
       <<"Construction", <<"Woven", "Knitted", "Quilted", "Seamless">> >> >>

\* statement sequencing: the store s is computed before next is evaluated
Then(s, next) == IF Len(s.keys) >= 0 THEN next ELSE s

\* for category in names: self.add_concept(category, kind, parent=parent)
RECURSIVE AddEach(_, _, _, _, _)
AddEach(s, names, kind, parent, i) ==
    IF i > Len(names) THEN s
    ELSE LET s1 == add_concept(s, names[i], kind, NoneAttrs, parent)
         IN  Then(s1, AddEach(s1, names, kind, parent, i + 1))

RECURSIVE AddAttributeCategoriesFrom(_, _)
AddAttributeCategoriesFrom(s, i) ==
    IF i > Len(attribute_categories) THEN s
    ELSE LET category   == attribute_categories[i][1]
             attributes == attribute_categories[i][2]
             s1 == add_concept(s, category, "attribute_category", NoneAttrs,
                               "Fashion")
             s2 == AddEach(s1, attributes, "attribute", category, 1)
         IN  Then(s2, AddAttributeCategoriesFrom(s2, i + 1))

add_attribute_categories(s) == AddAttributeCategoriesFrom(s, 1)

initialize_base_structure(s) ==
    LET s1 == add_concept(s, "Fashion", "root", NoneAttrs, None)
        s2 == AddEach(s1, main_categories, "main_category", "Fashion", 1)
        s3 == AddEach(s2, apparel_categories, "sub_category", "Apparel", 1)
    IN  add_attribute_categories(s3)

\* FashionOntology.__init__
SeededStore == initialize_base_structure(EmptyStore)

Store == [concepts |-> concepts, keys |-> keys, graph |-> graph]

----------------------------------------------------------------------------
(* Calls *)

NoFile == [exists |-> FALSE, concepts |-> << >>, relationships |-> {}]

NoCall == [op |-> "__init__", name |-> None, category |-> None,
           attributes |-> NoneAttrs, parent |-> None, max_distance |-> 0]

Call(op, name, category, attributes, parent) ==
    [op |-> op, name |-> name, category |-> category,
     attributes |-> attributes, parent |-> parent, max_distance |-> 0]

Init ==
    /\ concepts = SeededStore.concepts
    /\ keys = SeededStore.keys
    /\ graph = SeededStore.graph
    /\ pending_concepts = {}
    /\ file = NoFile
    /\ pc = "idle"
    /\ current = None
    /\ path = << >>
    /\ last = NoCall
    /\ ret = None
    /\ nops = 0

\* FashionOntology.add_concept, called directly
AddConcept(name, category, attributes, parent) ==
    /\ pc = "idle"
    /\ LET s == add_concept(Store, name, category, attributes, parent)
       IN  /\ concepts' = s.concepts
           /\ keys' = s.keys
           /\ graph' = s.graph
    /\ last' = Call("add_concept", name, category, attributes, parent)
    /\ ret' = None
    /\ nops' = nops + 1
    /\ UNCHANGED <<pending_concepts, file, pc, current, path>>

AddConceptAny ==
    \E name \in NameInputs, category \in CategoryInputs,
       attributes \in AttributeInputs, parent \in ParentInputs :
        AddConcept(name, category, attributes, parent)

----------------------------------------------------------------------------
(* JSON.  A JSON value is null, a string or an object; json.dumps keeps a   *)
(* dict's insertion order and json.loads restores it.                       *)

JsonNull == [type |-> "null", str |-> "", members |-> << >>]

JsonString(s) == [type |-> "string", str |-> s, members |-> << >>]

JsonObject(items) == [type |-> "object", str |-> "", members |-> items]

dumps_str(s) == IF s = None THEN JsonNull ELSE JsonString(s)

loads_str(j) == IF j.type = "null" THEN None ELSE j.str

dumps_attrs(a) == IF a.none THEN JsonNull ELSE JsonObject(a.items)

loads_attrs(j) == IF j.type = "null" THEN NoneAttrs ELSE Dict(j.members)

\* json.dumps of {"name", "category", "attributes", "parent"}
json_dumps(d) ==
    [name       |-> dumps_str(d.name),
     category   |-> dumps_str(d.category),
     attributes |-> dumps_attrs(d.attributes),
     parent     |-> dumps_str(d.parent)]

json_loads(j) ==
    [name       |-> loads_str(j.name),
     category   |-> loads_str(j.category),
     attributes |-> loads_attrs(j.attributes),
     parent     |-> loads_str(j.parent)]

\* one "<name>": {...} member of the exported "concepts" object; the order
\* of the "children" array is that of a Python set and is never read back
dump_concept(name, d) ==
    [key        |-> name,
     name       |-> dumps_str(d.name),
     category   |-> dumps_str(d.category),
     attributes |-> dumps_attrs(d.attributes),
     parent     |-> dumps_str(d.parent),
     children   |-> d.children]

----------------------------------------------------------------------------
(* export_to_json / import_from_json *)

export_to_json(s) ==
    [exists        |-> TRUE,
     concepts      |-> [i \in 1..Len(s.keys) |->
                           dump_concept(s.keys[i], to_dict(s.concepts[s.keys[i]]))],
     relationships |-> s.graph.edges]

\* the body of the loop below, for the i-th member of data["concepts"]
ReplayOne(s, data, i) ==
    LET concept_data == data.concepts[i]
    IN  add_concept(s, concept_data.key,
                    loads_str(concept_data.category),
                    loads_attrs(concept_data.attributes),
                    loads_str(concept_data.parent))

\* for name, concept_data in data["concepts"].items(): self.add_concept(...)
\* over the members lo..hi in document order; the range is walked in two
\* halves, first lo..mid and then mid+1..hi, to keep the evaluation shallow
RECURSIVE Replay(_, _, _, _)
Replay(s, data, lo, hi) ==
    IF lo > hi THEN s
    ELSE IF lo = hi THEN ReplayOne(s, data, lo)
    ELSE LET mid == (lo + hi) \div 2
             s1  == Replay(s, data, lo, mid)
         IN  Then(s1, Replay(s1, data, mid + 1, hi))

\* self.concepts.clear(); self.graph.clear(); then the replay
import_from_json(s, data) == Replay(EmptyStore, data, 1, Len(data.concepts))

Export ==
    /\ pc = "idle"
    /\ file' = export_to_json(Store)
    /\ last' = Call("export_to_json", None, None, NoneAttrs, None)
    /\ ret' = None
    /\ UNCHANGED <<concepts, keys, graph, pending_concepts, pc, current, path,
                   nops>>

\* open(filepath, 'r') raises before anything is cleared when there is no file
ImportMissing ==
    /\ pc = "idle"
    /\ ~file.exists
    /\ last' = Call("import_from_json", None, None, NoneAttrs, None)
    /\ ret' = "FileNotFoundError"
    /\ nops' = nops + 1
    /\ UNCHANGED <<concepts, keys, graph, pending_concepts, file, pc, current,
                   path>>

Import ==
    /\ pc = "idle"
    /\ file.exists
    /\ LET s == import_from_json(Store, file)
       IN  /\ concepts' = s.concepts
           /\ keys' = s.keys
           /\ graph' = s.graph
    /\ last' = Call("import_from_json", None, None, NoneAttrs, None)
    /\ ret' = None
    /\ nops' = nops + 1
    /\ UNCHANGED <<pending_concepts, file, pc, current, path>>

----------------------------------------------------------------------------
(* get_ancestry: the while loop, one iteration per step *)

GetAncestryCall(concept_name) ==
    /\ pc = "idle"
    /\ pc' = "walk"
    /\ path' = << >>
    /\ current' = concept_name
    /\ last' = Call("get_ancestry", concept_name, None, NoneAttrs, None)
    /\ ret' = None
    /\ UNCHANGED <<concepts, keys, graph, pending_concepts, file, nops>>

\* while current in self.concepts and self.concepts[current].parent
WalkCondition ==
    /\ current \in DOMAIN concepts
    /\ Truthy(concepts[current].parent)

GetAncestryLoop ==
    /\ pc = "walk"
    /\ WalkCondition
    /\ Len(path) < MaxPath
    /\ path' = Append(path, current)
    /\ current' = concepts[current].parent
    /\ UNCHANGED <<concepts, keys, graph, pending_concepts, file, pc, last,
                   ret, nops>>

\* as GetAncestryReturn, without `path.append("Fashion")`
GetAncestryReturn_NoRoot ==
    /\ pc = "walk"
    /\ ~WalkCondition
    /\ ret' = Reverse(path)
    /\ pc' = "idle"
    /\ path' = << >>
    /\ current' = None
    /\ UNCHANGED <<concepts, keys, graph, pending_concepts, file, last, nops>>

\* as GetAncestryReturn, with the node the walk stopped at appended as well
GetAncestryReturn_AppendsLast ==
    /\ pc = "walk"
    /\ ~WalkCondition
    /\ ret' = Reverse(Append(Append(path, current), "Fashion"))
    /\ pc' = "idle"
    /\ path' = << >>
    /\ current' = None
    /\ UNCHANGED <<concepts, keys, graph, pending_concepts, file, last, nops>>

GetAncestryReturn ==
    /\ pc = "walk"
    /\ ~WalkCondition
    /\ ret' = Reverse(Append(path, "Fashion"))
    /\ pc' = "idle"
    /\ path' = << >>
    /\ current' = None
    /\ UNCHANGED <<concepts, keys, graph, pending_concepts, file, last, nops>>

GetAncestryAny == \E concept_name \in QueryInputs : GetAncestryCall(concept_name)

----------------------------------------------------------------------------
(* get_children *)

get_children(s, concept_name) ==
    IF concept_name \in DOMAIN s.concepts
    THEN s.concepts[concept_name].children
    ELSE {}

GetChildren(concept_name) ==
    /\ pc = "idle"
    /\ ret' = get_children(Store, concept_name)
    /\ last' = Call("get_children", concept_name, None, NoneAttrs, None)
    /\ UNCHANGED <<concepts, keys, graph, pending_concepts, file, pc, current,
                   path, nops>>

GetChildrenAny == \E concept_name \in QueryInputs : GetChildren(concept_name)

----------------------------------------------------------------------------
(* find_related_concepts *)

\* nx.NetworkXNoPath, as a distance
NoPath == -1

\* as successors, over an undirected graph: edges are followed both ways
successors_Undirected(g, S) ==
    {e[2] : e \in {f \in g.edges : f[1] \in S}}
        \cup {e[1] : e \in {f \in g.edges : f[2] \in S}}

\* the heads of the edges that leave a node of S
successors(g, S) == {e[2] : e \in {f \in g.edges : f[1] \in S}}

\* breadth-first search over the edges of g: frontier holds the nodes at
\* distance k, found maps every node seen so far to its distance
RECURSIVE search(_, _, _, _)
search(g, frontier, found, k) ==
    IF frontier = {} THEN found
    ELSE LET next == successors(g, frontier) \ DOMAIN found
         IN  search(g, next, found @@ [node \in next |-> k + 1], k + 1)

\* nx.shortest_path_length(G, source, target) on an unweighted DiGraph, for
\* every target of G at once; NoPath where it raises NetworkXNoPath
shortest_path_length(g, source) ==
    LET found == search(g, {source}, [node \in {source} |-> 0], 0)
    IN  [target \in g.nodes |->
            IF target \in DOMAIN found THEN found[target] ELSE NoPath]

\* as IsRelated, without the test `node != concept_name`
IsRelated_KeepsSelf(node, concept_name, distance, max_distance) ==
    /\ distance # NoPath
    /\ distance <= max_distance

\* as IsRelated, with `distance < max_distance`
IsRelated_StrictlyLess(node, concept_name, distance, max_distance) ==
    /\ node # concept_name
    /\ distance # NoPath
    /\ distance < max_distance

\* the tests under which (node, distance) is appended to related
IsRelated(node, concept_name, distance, max_distance) ==
    /\ node # concept_name
    /\ distance # NoPath
    /\ distance <= max_distance

\* sorted(related, key=lambda x: x[1]): a stable sort, the pairs of distance
\* k in their order in related, for k = 0, 1, ... up to the largest distance
RECURSIVE sorted_from(_, _, _)
sorted_from(related, k, largest) ==
    IF k > largest THEN << >>
    ELSE SelectSeq(related, LAMBDA x : x[2] = k)
             \o sorted_from(related, k + 1, largest)

sorted_by_distance(related) ==
    LET distances == {related[i][2] : i \in 1..Len(related)}
        largest   == IF distances = {} THEN 0
                     ELSE CHOOSE m \in distances : \A x \in distances : x <= m
    IN  sorted_from(related, 0, largest)

find_related_concepts(s, concept_name, max_distance) ==
    IF concept_name \notin s.graph.nodes THEN << >>
    ELSE LET distance == shortest_path_length(s.graph, concept_name)
             nodes    == SelectSeq(s.graph.order,
                             LAMBDA node : IsRelated(node, concept_name,
                                                     distance[node], max_distance))
             related  == [i \in 1..Len(nodes) |-> <<nodes[i], distance[nodes[i]]>>]
             result   == sorted_by_distance(related)
         IN  [i \in 1..Len(result) |-> result[i][1]]

FindRelatedConcepts(concept_name, max_distance) ==
    /\ pc = "idle"
    /\ ret' = find_related_concepts(Store, concept_name, max_distance)
    /\ last' = [Call("find_related_concepts", concept_name, None, NoneAttrs, None)
                   EXCEPT !.max_distance = max_distance]
    /\ UNCHANGED <<concepts, keys, graph, pending_concepts, file, pc, current,
                   path, nops>>

FindRelatedAny ==
    \E concept_name \in RelatedInputs, max_distance \in DistanceInputs :
        FindRelatedConcepts(concept_name, max_distance)

----------------------------------------------------------------------------
(* OntologyManager *)

\* as SuggestNewConcept, with the pending proposals keyed by name: a new
\* proposal replaces the pending ones of the same name
SuggestNewConcept_KeyedByName(name, category, attributes, parent) ==
    /\ pc = "idle"
    /\ IF name \in DOMAIN concepts
       THEN /\ ret' = FALSE
            /\ UNCHANGED pending_concepts
       ELSE /\ pending_concepts' =
                   {j \in pending_concepts : json_loads(j).name # name}
                       \cup {json_dumps([name |-> name, category |-> category,
                                         attributes |-> attributes,
                                         parent |-> parent])}
            /\ ret' = TRUE
    /\ last' = Call("suggest_new_concept", name, category, attributes, parent)
    /\ nops' = nops + 1
    /\ UNCHANGED <<concepts, keys, graph, file, pc, current, path>>

\* as SuggestNewConcept, without the test `name in self.ontology.concepts`
SuggestNewConcept_NoCommittedCheck(name, category, attributes, parent) ==
    /\ pc = "idle"
    /\ pending_concepts' =
           pending_concepts \cup {json_dumps([name |-> name, category |-> category,
                                              attributes |-> attributes,
                                              parent |-> parent])}
    /\ ret' = TRUE
    /\ last' = Call("suggest_new_concept", name, category, attributes, parent)
    /\ nops' = nops + 1
    /\ UNCHANGED <<concepts, keys, graph, file, pc, current, path>>

SuggestNewConcept(name, category, attributes, parent) ==
    /\ pc = "idle"
    /\ IF name \in DOMAIN concepts
       THEN /\ ret' = FALSE
            /\ UNCHANGED pending_concepts
       ELSE LET concept_data == [name |-> name, category |-> category,
                                 attributes |-> attributes, parent |-> parent]
            IN  /\ pending_concepts' =
                       pending_concepts \cup {json_dumps(concept_data)}
                /\ ret' = TRUE
    /\ last' = Call("suggest_new_concept", name, category, attributes, parent)
    /\ nops' = nops + 1
    /\ UNCHANGED <<concepts, keys, graph, file, pc, current, path>>

SuggestAny ==
    \E name \in NameInputs, category \in CategoryInputs,
       attributes \in AttributeInputs, parent \in ParentInputs :
        SuggestNewConcept(name, category, attributes, parent)

\* as ApproveFound, removing every pending proposal of that name
ApproveFound_RemovesAllNamed(name, concept_json) ==
    /\ pc = "idle"
    /\ concept_json \in pending_concepts
    /\ LET concept == json_loads(concept_json)
       IN  /\ concept.name = name
           /\ LET s == add_concept(Store, concept.name, concept.category,
                                   concept.attributes, concept.parent)
              IN  /\ concepts' = s.concepts
                  /\ keys' = s.keys
                  /\ graph' = s.graph
    /\ pending_concepts' =
           {j \in pending_concepts : json_loads(j).name # name}
    /\ ret' = TRUE
    /\ last' = Call("approve_concept", name, None, NoneAttrs, None)
    /\ nops' = nops + 1
    /\ UNCHANGED <<file, pc, current, path>>

\* the first element of the set's iteration whose name matches: the order of
\* a Python set of strings is arbitrary, so any matching element may be it
ApproveFound(name, concept_json) ==
    /\ pc = "idle"
    /\ concept_json \in pending_concepts
    /\ LET concept == json_loads(concept_json)
       IN  /\ concept.name = name
           /\ LET s == add_concept(Store, concept.name, concept.category,
                                   concept.attributes, concept.parent)
              IN  /\ concepts' = s.concepts
                  /\ keys' = s.keys
                  /\ graph' = s.graph
    /\ pending_concepts' = pending_concepts \ {concept_json}
    /\ ret' = TRUE
    /\ last' = Call("approve_concept", name, None, NoneAttrs, None)
    /\ nops' = nops + 1
    /\ UNCHANGED <<file, pc, current, path>>

\* as ApproveNotFound, with the final `return False` turned into True
ApproveNotFound_ReturnsTrue(name) ==
    /\ pc = "idle"
    /\ \A concept_json \in pending_concepts : json_loads(concept_json).name # name
    /\ ret' = TRUE
    /\ last' = Call("approve_concept", name, None, NoneAttrs, None)
    /\ nops' = nops + 1
    /\ UNCHANGED <<concepts, keys, graph, pending_concepts, file, pc, current,
                   path>>

ApproveNotFound(name) ==
    /\ pc = "idle"
    /\ \A concept_json \in pending_concepts : json_loads(concept_json).name # name
    /\ ret' = FALSE
    /\ last' = Call("approve_concept", name, None, NoneAttrs, None)
    /\ nops' = nops + 1
    /\ UNCHANGED <<concepts, keys, graph, pending_concepts, file, pc, current,
                   path>>

ApproveConcept(name) ==
    \/ \E concept_json \in pending_concepts : ApproveFound(name, concept_json)
    \/ ApproveNotFound(name)

ApproveAny == \E name \in NameInputs : ApproveConcept(name)

----------------------------------------------------------------------------
(* Specifications *)

\* the store alone: direct add_concept calls, export/import and get_ancestry
NextStore ==
    \/ nops < MaxStoreOps /\ AddConceptAny
    \/ nops < MaxStoreOps /\ Import
    \/ nops < MaxStoreOps /\ ImportMissing
    \/ Export
    \/ GetAncestryAny
    \/ GetAncestryLoop
    \/ GetAncestryReturn

SpecStore == Init /\ [][NextStore]_vars

\* the store's queries after direct add_concept calls
NextQuery ==
    \/ nops < MaxQueryOps /\ AddConceptAny
    \/ FindRelatedAny
    \/ GetChildrenAny
    \/ GetAncestryAny
    \/ GetAncestryLoop
    \/ GetAncestryReturn

SpecQuery == Init /\ [][NextQuery]_vars

\* the manager alone: suggest_new_concept and approve_concept
NextManager ==
    \/ nops < MaxManagerOps /\ SuggestAny
    \/ nops < MaxManagerOps /\ ApproveAny

SpecManager == Init /\ [][NextManager]_vars

\* every mutating operation of the store and of the manager
Next ==
    \/ nops < MaxOps /\ AddConceptAny
    \/ nops < MaxOps /\ SuggestAny
    \/ nops < MaxOps /\ ApproveAny
    \/ nops < MaxOps /\ Import
    \/ nops < MaxOps /\ ImportMissing
    \/ Export

Spec == Init /\ [][Next]_vars

----------------------------------------------------------------------------
(* Properties *)

Names == DOMAIN concepts

StoreUnchanged == concepts' = concepts /\ keys' = keys /\ graph' = graph

\* the pending proposals, deserialised, whose name field is name
Matching(name) ==
    {concept_json \in pending_concepts : json_loads(concept_json).name = name}

\* C1: every concept C whose parent is P has P among the concepts and
\* C.name in concepts[P].children.
C1_ParentKnownAndListsChild ==
    \A c \in Names :
        concepts[c].parent # None =>
            /\ concepts[c].parent \in Names
            /\ c \in concepts[concepts[c].parent].children

\* C2: the graph mirrors the parent relation: its node set is the set of
\* concept names, and (P, C) is an edge iff concepts[C].parent = P.
C2_GraphMirrorsParents ==
    /\ graph.nodes = Names
    /\ \A P \in graph.nodes \cup Names, C \in graph.nodes \cup Names :
           <<P, C>> \in graph.edges <=> (C \in Names /\ concepts[C].parent = P)

\* C3: exactly one concept has parent None, and it is "Fashion".
C3_SingleRootFashion ==
    {c \in Names : concepts[c].parent = None} = {"Fashion"}

\* C4: the children set of every concept P holds only names of existing
\* concepts whose parent is P.
C4_ChildrenHaveThatParent ==
    \A P \in Names :
        \A c \in concepts[P].children :
            c \in Names /\ concepts[c].parent = P

\* a step that is a call of op
IsCall(op) == last'.op = op /\ nops' = nops + 1

\* the key/value pairs of an attributes argument; None has none
Items(a) == IF a.none THEN {} ELSE Range(a.items)

\* the concept stored under n after the step has the category, attributes
\* and parent of the proposal p
Committed(n, p) ==
    /\ n \in DOMAIN concepts'
    /\ concepts'[n].name = n
    /\ concepts'[n].category = p.category
    /\ ~concepts'[n].attributes.none
    /\ Items(concepts'[n].attributes) = Items(p.attributes)
    /\ concepts'[n].parent = p.parent

\* C5: when a pending proposal has name n, approve_concept(n) returns true,
\* the store then holds a concept n with the category, attributes and parent
\* of one matching proposal, exactly that proposal has left the pending set
\* and every other one (of that name or another) is still pending.  The
\* attributes are compared as mappings: a proposal made without attributes
\* (null) has no items, and is committed with the empty mapping.
C5_ApproveCommitsProposal ==
    [][(IsCall("approve_concept") /\ Matching(last'.name) # {}) =>
          /\ ret' = TRUE
          /\ \E concept_json \in Matching(last'.name) :
                 /\ Committed(last'.name, json_loads(concept_json))
                 /\ pending_concepts' = pending_concepts \ {concept_json}]_vars

\* C5 witness: an approval returned true and another proposal of the same
\* name is still pending.
C5_Witness ==
    /\ last.op = "approve_concept"
    /\ ret = TRUE
    /\ last.name \in Names
    /\ Matching(last.name) # {}

\* C6: suggest_new_concept returns false and changes neither the pending set
\* nor the store when the name is a committed concept; otherwise it returns
\* true, the proposal is pending afterwards and the store is unchanged.
C6_SuggestRejectsCommittedName ==
    [][IsCall("suggest_new_concept") =>
          /\ StoreUnchanged
          /\ IF last'.name \in Names
             THEN ret' = FALSE /\ pending_concepts' = pending_concepts
             ELSE /\ ret' = TRUE
                  /\ \E concept_json \in pending_concepts' :
                         json_loads(concept_json) =
                             [name |-> last'.name, category |-> last'.category,
                              attributes |-> last'.attributes,
                              parent |-> last'.parent]]_vars

\* C6 witness: a suggestion was refused for a committed name while an earlier,
\* accepted proposal is pending.
C6_Witness ==
    /\ last.op = "suggest_new_concept"
    /\ ret = FALSE
    /\ last.name \in Names
    /\ pending_concepts # {}

\* C7: approve_concept returns false when no pending proposal has that name,
\* and then changes neither the pending set nor the store.
C7_ApproveWithoutMatchReturnsFalse ==
    [][(IsCall("approve_concept") /\ Matching(last'.name) = {}) =>
          /\ ret' = FALSE
          /\ pending_concepts' = pending_concepts
          /\ StoreUnchanged]_vars

\* C7 witness: an approval returned false while proposals of other names are
\* pending.
C7_Witness ==
    /\ last.op = "approve_concept"
    /\ ret = FALSE
    /\ pending_concepts # {}
    /\ Matching(last.name) = {}

\* the parent links from n lead, in at most fuel steps, to the concept
\* "Fashion" with no parent
RECURSIVE ReachesRoot(_, _)
ReachesRoot(n, fuel) ==
    /\ n \in Names
    /\ IF concepts[n].parent = None THEN n = "Fashion"
       ELSE fuel > 0 /\ ReachesRoot(concepts[n].parent, fuel - 1)

\* q is the chain of names from the root "Fashion" down to n
IsRootFirstChain(q, n) ==
    /\ Len(q) >= 1
    /\ q[1] = "Fashion"
    /\ q[Len(q)] = n
    /\ \A i \in 1..Len(q) : q[i] \in Names
    /\ concepts[q[1]].parent = None
    /\ \A i \in 1..(Len(q) - 1) : concepts[q[i + 1]].parent = q[i]

\* get_ancestry(last.name) has returned ret, for a known concept whose parent
\* chain reaches the root
AncestryReturned ==
    /\ pc = "idle"
    /\ last.op = "get_ancestry"
    /\ ReachesRoot(last.name, Cardinality(Names))

\* C8, as claimed: the result is the root-first chain from the root down to
\* N followed by one more root label; get_ancestry("Dresses") is
\* <<"Fashion", "Apparel", "Dresses", "Fashion">> and get_ancestry(root) is
\* <<root, root>>.
C8_AncestryEndsWithSecondRoot ==
    AncestryReturned =>
        /\ Len(ret) >= 2
        /\ ret[Len(ret)] = "Fashion"
        /\ IsRootFirstChain(SubSeq(ret, 1, Len(ret) - 1), last.name)

\* C8, amended: the result is the root-first chain from the root down to N,
\* the root label first and nothing after N; get_ancestry("Dresses") is
\* <<"Fashion", "Apparel", "Dresses">> and get_ancestry(root) is <<root>>.
C8_AncestryIsRootFirstChain ==
    AncestryReturned =>
        /\ IsRootFirstChain(ret, last.name)
        /\ last.name = "Fashion" => ret = <<"Fashion">>
        /\ (/\ last.name = "Dresses"
            /\ concepts["Dresses"].parent = "Apparel"
            /\ concepts["Apparel"].parent = "Fashion")
           => ret = <<"Fashion", "Apparel", "Dresses">>

\* C8 witness: get_ancestry("Dresses") has returned, Dresses under Apparel
\* under Fashion.
C8_Witness ==
    /\ AncestryReturned
    /\ last.name = "Dresses"
    /\ concepts["Dresses"].parent = "Apparel"
    /\ concepts["Apparel"].parent = "Fashion"
    /\ Len(ret) = 3

\* C9: importing the document just exported from the store yields the same
\* concept names, the same category, attributes and parent for every name,
\* and the edge set the graph had before the export.
C9_ExportImportRoundTrip ==
    [][(IsCall("import_from_json") /\ file.exists /\ file = export_to_json(Store)) =>
          /\ DOMAIN concepts' = Names
          /\ \A n \in Names :
                 /\ concepts'[n].category = concepts[n].category
                 /\ concepts'[n].attributes = concepts[n].attributes
                 /\ concepts'[n].parent = concepts[n].parent
          /\ graph'.edges = graph.edges]_vars

\* C10, as claimed: no step of add_concept, suggest_new_concept,
\* approve_concept, export or import removes a concept name.
C10_NamesNeverRemoved ==
    [][Names \subseteq DOMAIN concepts']_vars

\* C10, amended: no step of add_concept, suggest_new_concept, approve_concept
\* or export removes a concept name; import_from_json replaces the concepts
\* by those of the document and may remove names.
C10_NamesRemovedOnlyByImport ==
    [][last'.op # "import_from_json" => Names \subseteq DOMAIN concepts']_vars

\* C10 witness: "Velvet" was committed and is still a concept after a later
\* call of the manager.
C10_Witness ==
    /\ "Velvet" \in Names
    /\ last.op = "suggest_new_concept"
    /\ last.name = "Velvet"
    /\ ret = FALSE

\* the nodes reached from X by a directed path of at most k edges
RECURSIVE Within(_, _)
Within(X, k) ==
    IF k <= 0 THEN {X}
    ELSE LET W == Within(X, k - 1)
         IN  W \cup {e[2] : e \in {f \in graph.edges : f[1] \in W}}

\* find_related_concepts(last.name, last.max_distance) has returned ret
RelatedReturned == last.op = "find_related_concepts"

\* C11: for a graph node X, find_related_concepts(X, d) holds exactly the
\* nodes other than X at directed distance at most d, each once, a node at a
\* smaller distance before every node at a larger one; for a name that is
\* no graph node it is empty.
C11_RelatedAreNodesWithinDistance ==
    RelatedReturned =>
        LET X == last.name
            d == last.max_distance
            W == [k \in 0..d |-> Within(X, k)]
        IN  IF X \notin graph.nodes THEN ret = << >>
            ELSE /\ Range(ret) = W[d] \ {X}
                 /\ Cardinality(Range(ret)) = Len(ret)
                 /\ \A i \in 1..(Len(ret) - 1) :
                        \A k \in 0..d : ret[i + 1] \in W[k] => ret[i] \in W[k]

\* C11 witness: a result that holds a node at distance 1 and, after it, a
\* node at a larger distance.
C11_Witness ==
    /\ RelatedReturned
    /\ last.name \in graph.nodes
    /\ Len(ret) >= 2
    /\ ret[1] \in Within(last.name, 1)
    /\ ret[Len(ret)] \notin Within(last.name, 1)

\* find_related_concepts(X, 1) has returned ret for a concept X that is a
\* graph node
NeighboursReturned ==
    /\ RelatedReturned
    /\ last.max_distance = 1
    /\ last.name \in Names
    /\ last.name \in graph.nodes

\* "Velvet" under "Fashion", "Tweed" under "Velvet", and no other edge at
\* "Velvet": the scenario of the claim, with Velvet for Apparel and Tweed for
\* Dresses
VelvetScenario ==
    /\ {"Fashion", "Velvet", "Tweed"} \subseteq Names
    /\ concepts["Fashion"].parent = None
    /\ concepts["Velvet"].parent = "Fashion"
    /\ concepts["Tweed"].parent = "Velvet"
    /\ {e \in graph.edges : "Velvet" \in {e[1], e[2]}} =
           {<<"Fashion", "Velvet">>, <<"Velvet", "Tweed">>}

\* C12, as claimed: find_related_concepts(X, 1) holds the parent of X and
\* the children of X; with Velvet under Fashion and Tweed under Velvet it
\* is "Fashion" and "Tweed" in some order.
C12_NeighboursIncludeParent ==
    NeighboursReturned =>
        /\ Truthy(concepts[last.name].parent) =>
               concepts[last.name].parent \in Range(ret)
        /\ concepts[last.name].children \ {last.name} \subseteq Range(ret)
        /\ (last.name = "Velvet" /\ VelvetScenario) =>
               Range(ret) = {"Fashion", "Tweed"}

\* C12, amended: find_related_concepts(X, 1) holds the nodes at the head of
\* an edge out of X, so the children of X and not its parent (the parent is
\* in it only when an edge leads from X back to it); with Velvet under
\* Fashion and Tweed under Velvet it is <<"Tweed">>.
C12_NeighboursAreChildren ==
    NeighboursReturned =>
        /\ Range(ret) =
               {v \in graph.nodes \ {last.name} : <<last.name, v>> \in graph.edges}
        /\ concepts[last.name].children \ {last.name} \subseteq Range(ret)
        /\ (last.name = "Velvet" /\ VelvetScenario) => ret = <<"Tweed">>

\* C12 witness: find_related_concepts("Velvet", 1) has returned in the
\* scenario.
C12_Witness ==
    /\ NeighboursReturned
    /\ last.name = "Velvet"
    /\ VelvetScenario
    /\ Len(ret) = 1

\* C14: for a name that is no concept, get_children returns the empty set
\* and get_ancestry returns <<"Fashion">>, and no step of either call
\* changes the concepts or the graph.
C14_UnknownNameLookups ==
    [][/\ (last'.op = "get_children" /\ last'.name \notin Names) =>
              (ret' = {} /\ StoreUnchanged)
       /\ (last'.op = "get_ancestry" /\ last'.name \notin Names) =>
              /\ StoreUnchanged
              /\ pc' = "idle" => ret' = <<"Fashion">>]_vars

\* C14 witness: get_ancestry of a name that is no concept has returned,
\* after a concept was added.
C14_Witness ==
    /\ last.op = "get_ancestry"
    /\ pc = "idle"
    /\ last.name \notin Names
    /\ Len(ret) = 1
    /\ nops > 0

\* C15: the result for a distance d1 has no more elements than, and is
\* contained in, the result for every d2 >= d1; the result for distance 0
\* is empty.
C15_RelatedGrowWithDistance ==
    RelatedReturned =>
        /\ \A d2 \in DistanceInputs :
               d2 >= last.max_distance =>
                   LET more == find_related_concepts(Store, last.name, d2)
                   IN  /\ Len(ret) <= Len(more)
                       /\ Range(ret) \subseteq Range(more)
        /\ last.max_distance = 0 => ret = << >>

\* C15 witness: a result for distance 1 that is not empty and is smaller
\* than the result for distance 2.
C15_Witness ==
    /\ RelatedReturned
    /\ last.max_distance = 1
    /\ Len(ret) >= 1
    /\ Len(ret) < Len(find_related_concepts(Store, last.name, 2))

\* the proposal a suggest_new_concept step was called with
Suggested ==
    [name |-> last'.name, category |-> last'.category,
     attributes |-> last'.attributes, parent |-> last'.parent]

\* C13: the pending set is keyed by the full content of a proposal: a
\* suggestion of an uncommitted name whose name, category, attributes and
\* parent are those of a pending proposal returns true and leaves the
\* pending set as it is; any other one is added as one more entry, next to
\* the pending proposals of the same name.
C13_PendingKeyedByContent ==
    [][(IsCall("suggest_new_concept") /\ last'.name \notin Names) =>
          /\ ret' = TRUE
          /\ IF \E j \in pending_concepts : json_loads(j) = Suggested
             THEN pending_concepts' = pending_concepts
             ELSE /\ pending_concepts \subseteq pending_concepts'
                  /\ Cardinality(pending_concepts') =
                         Cardinality(pending_concepts) + 1
                  /\ \E j \in pending_concepts' \ pending_concepts :
                         json_loads(j) = Suggested]_vars

\* C13 witness: three suggestions made, the last one accepted, and two
\* proposals of its name, different in content, are pending.
C13_Witness ==
    /\ last.op = "suggest_new_concept"
    /\ ret = TRUE
    /\ nops = 3
    /\ Cardinality(pending_concepts) = 2
    /\ Cardinality(Matching(last.name)) = 2

\* target is reached from n over parent links, through names not in seen
RECURSIVE ReachesUp(_, _, _)
ReachesUp(n, target, seen) ==
    /\ n \in Names
    /\ Truthy(concepts[n].parent)
    /\ \/ concepts[n].parent = target
       \/ /\ concepts[n].parent \notin seen
          /\ ReachesUp(concepts[n].parent, target, seen \cup {concepts[n].parent})

\* C16: no concept is its own ancestor over parent links.
C16_ParentsAcyclic ==
    \A n \in Names : ~ReachesUp(n, n, {n})

\* C17: get_ancestry terminates.  The walk is deterministic and the store
\* does not change under it, so it terminates exactly when it never comes
\* back to a name that is already on its path.
C17_WalkNeverRevisits ==
    pc = "walk" => current \notin Range(path)

\* the concept m has the same category, attributes and parent after the step
SameFields(m) ==
    /\ m \in DOMAIN concepts'
    /\ concepts'[m].category = concepts[m].category
    /\ concepts'[m].attributes = concepts[m].attributes
    /\ concepts'[m].parent = concepts[m].parent

\* C18, as claimed: no approve_concept call overwrites a concept that is
\* already committed: its category, attributes and parent stay as they are
\* and its children set loses nothing (the parent of the approved concept
\* gaining that child is not counted as a change).
C18_CommittedNeverChanged ==
    [][IsCall("approve_concept") =>
          \A m \in Names :
              /\ SameFields(m)
              /\ concepts[m].children \subseteq concepts'[m].children
              /\ concepts'[m].children \subseteq
                     concepts[m].children \cup {last'.name}]_vars

\* C18, amended: approve_concept(n) leaves the category, attributes and
\* parent of every committed concept other than n as they are, and changes
\* its children set only by adding n; a committed concept n itself is
\* replaced by the approved proposal, with a fresh children set, when a
\* proposal of n is still pending.
C18_OnlyApprovedNameChanged ==
    [][IsCall("approve_concept") =>
          /\ \A m \in Names \ {last'.name} :
                 /\ SameFields(m)
                 /\ concepts'[m].children \in
                        {concepts[m].children, concepts[m].children \cup {last'.name}}
          /\ (last'.name \in Names /\ Matching(last'.name) # {}) =>
                 \E j \in Matching(last'.name) :
                     /\ Committed(last'.name, json_loads(j))
                     /\ concepts'[last'.name].children \subseteq {last'.name}
          /\ (last'.name \in Names /\ Matching(last'.name) = {}) =>
                 concepts'[last'.name] = concepts[last'.name]]_vars

\* C18 witness: a name was approved a second time: only approvals add edges
\* here, and the approved name has edges from two parents.
C18_Witness ==
    /\ last.op = "approve_concept"
    /\ ret = TRUE
    /\ Cardinality({e \in graph.edges : e[2] = last.name}) >= 2

=============================================================================
